---- MODULE Spec2Model ----
(***************************************************************************)
(* Model of digital_twin.py: ManufacturingMachine (the per-tick update     *)
(* rule), DigitalTwin (history, rotation) and the FuncAnimation that       *)
(* drives DigitalTwin.update.                                              *)
(*                                                                         *)
(* Numbers.  The program computes on floats.  The model computes on exact  *)
(* rationals <<n, d>> with d > 0 and gcd(n, d) = 1, so that equal values   *)
(* have equal representations.  Rounding is not modelled.                  *)
(***************************************************************************)
EXTENDS Integers, Sequences, FiniteSets

\* ------------------------------------------------------------------ bounds
\* Number of frames of the animation that the model follows (the program
\* asks for `frames`, see below).
MaxFrames == 1

\* ------------------------------------------------------- program constants
frames == 200
initial_pressure == 1
initial_stress == 1
initial_rotation == 0
rotation_gain == 5
full_turn == 360
power_min == 0
power_max == 100
temp_min == 0
prod_min == 0

\* --------------------------------------------------------------- rationals
RECURSIVE GCD(_, _)
GCD(a, b) == IF b = 0 THEN a ELSE GCD(b, a % b)

IAbs(n) == IF n < 0 THEN -n ELSE n

Norm(n, d) ==
    LET g == GCD(IAbs(n), d)
    IN  <<n \div g, d \div g>>

R(n) == <<n, 1>>

Q(n, d) == Norm(n, d)

RAdd(x, y) ==
    LET g == GCD(x[2], y[2])
    IN  Norm(x[1] * (y[2] \div g) + y[1] * (x[2] \div g), x[2] * (y[2] \div g))

RNeg(x) == <<-x[1], x[2]>>

RSub(x, y) == RAdd(x, RNeg(y))

RMul(x, y) ==
    LET g1 == GCD(IAbs(x[1]), y[2])
        g2 == GCD(IAbs(y[1]), x[2])
    IN  IF x[1] = 0 \/ y[1] = 0 THEN <<0, 1>>
        ELSE <<(x[1] \div g1) * (y[1] \div g2), (x[2] \div g2) * (y[2] \div g1)>>

\* x / y for y > 0 (optimal_temp is positive in every configuration).
RDiv(x, y) == RMul(x, <<y[2], y[1]>>)

RLe(x, y) == RSub(x, y)[1] <= 0

RLt(x, y) == RSub(x, y)[1] < 0

\* x % m for an integer m > 0, Python's sign convention (result in [0, m)).
RMod(x, m) == Norm(x[1] % (m * x[2]), x[2])

\* ------------------------------------------------- builtins used by update
abs(x) == IF x[1] < 0 THEN RNeg(x) ELSE x

max(a, b) == IF RLt(a, b) THEN b ELSE a

\* Variant of clip that forgets the upper limit.
clip_no_upper(x, lo, hi) == IF RLt(x, lo) THEN lo ELSE x

\* np.clip(x, lo, hi) = minimum(maximum(x, lo), hi)
clip(x, lo, hi) ==
    LET m == IF RLt(x, lo) THEN lo ELSE x
    IN  IF RLt(hi, m) THEN hi ELSE m

\* ---------------------------------------------------------- configurations
\* Arguments of ManufacturingMachine(...).  The first is the one the
\* program constructs; the others exercise the clamps, the production floor
\* and the rotation wraparound within MaxFrames frames.
ProgramConfig ==
    [initial_temp |-> R(70), max_temp |-> R(100), optimal_temp |-> R(75),
     initial_production_rate |-> R(10), initial_power |-> R(50)]

HotConfig ==
    [initial_temp |-> R(87), max_temp |-> R(90), optimal_temp |-> R(80),
     initial_production_rate |-> Q(1, 4), initial_power |-> R(100)]

ColdConfig ==
    [initial_temp |-> R(5), max_temp |-> R(100), optimal_temp |-> R(5),
     initial_production_rate |-> Q(1, 4), initial_power |-> R(0)]

FastConfig ==
    [initial_temp |-> R(70), max_temp |-> R(100), optimal_temp |-> R(75),
     initial_production_rate |-> R(100), initial_power |-> R(50)]

Configs == {ProgramConfig, HotConfig, ColdConfig, FastConfig}

\* ------------------------------------------------------------- noise draws
\* One value of np.random.normal per field and tick.  Every draw is a few
\* standard deviations at most; ZeroNoise is the forced-zero scenario.
TempNoise == {R(-5), R(5)}
ProdNoise == {Q(-1, 2), Q(1, 2)}
PowerNoise == {Q(-1, 5), Q(1, 5)}
PressureNoise == {Q(-3, 5), Q(1, 10)}
StressNoise == {Q(-1, 20), Q(1, 20)}

ZeroNoise ==
    [temperature |-> R(0), production_rate |-> R(0), power_consumption |-> R(0),
     pressure |-> R(0), stress |-> R(0)]

Draws ==
    [temperature : TempNoise, production_rate : ProdNoise,
     power_consumption : PowerNoise, pressure : PressureNoise,
     stress : StressNoise] \cup {ZeroNoise}

\* ------------------------------------------------------------------- state
VARIABLES
    config,             \* the arguments ManufacturingMachine was built with
    machine,            \* the ManufacturingMachine: its seven fields
    time,               \* DigitalTwin.time
    temp_history,       \* DigitalTwin.temp_history
    prod_history,       \* DigitalTwin.prod_history
    power_history,      \* DigitalTwin.power_history
    pressure_history,   \* DigitalTwin.pressure_history
    stress_history,     \* DigitalTwin.stress_history
    rotation,           \* DigitalTwin.rotation
    pc,                 \* position of the module-level script
    init_drawn,         \* the animation has drawn its initial frame
    next_frame,         \* next item of the animation's frame sequence
    passed,             \* frame arguments DigitalTwin.update received so far
    machine_updates,    \* number of calls of ManufacturingMachine.update
    draws,              \* the five noise values of the last machine update
    temp_factor         \* local temp_factor of the last machine update

vars == <<config, machine, time, temp_history, prod_history, power_history,
          pressure_history, stress_history, rotation, pc, init_drawn,
          next_frame, passed, machine_updates, draws, temp_factor>>

histories == <<time, temp_history, prod_history, power_history,
               pressure_history, stress_history>>

\* ---------------------------------------------------- ManufacturingMachine
ManufacturingMachine(c) ==
    [temperature |-> c.initial_temp,
     max_temp |-> c.max_temp,
     optimal_temp |-> c.optimal_temp,
     production_rate |-> c.initial_production_rate,
     power_consumption |-> c.initial_power,
     pressure |-> R(initial_pressure),
     stress |-> R(initial_stress)]

\* Variant of TempFactor without the abs.
TempFactor_signed(temperature, optimal_temp) ==
    RSub(R(1), RDiv(RSub(temperature, optimal_temp), optimal_temp))

\* temp_factor = 1 - abs(temperature - optimal_temp) / optimal_temp
TempFactor(temperature, optimal_temp) ==
    RSub(R(1), RDiv(abs(RSub(temperature, optimal_temp)), optimal_temp))

\* Variant of Machine_update whose temp_factor reads the temperature of the
\* previous tick.
Machine_update_stale_temp(m, d) ==
    LET t1 == RAdd(m.temperature, d.temperature)
        t2 == clip(t1, R(temp_min), m.max_temp)
        tf == TempFactor(m.temperature, m.optimal_temp)
        pr == max(R(prod_min), RAdd(RMul(m.production_rate, tf), d.production_rate))
        pw1 == RAdd(m.power_consumption, d.power_consumption)
        pw2 == clip(pw1, R(power_min), R(power_max))
        ps == RAdd(m.pressure, d.pressure)
        st == RAdd(m.stress, d.stress)
    IN  [machine |-> [m EXCEPT !.temperature = t2,
                               !.production_rate = pr,
                               !.power_consumption = pw2,
                               !.pressure = ps,
                               !.stress = st],
         temp_factor |-> tf]

\* Variant of Machine_update that floors pressure and stress at 0, the way
\* production_rate is floored.
Machine_update_floored(m, d) ==
    LET t1 == RAdd(m.temperature, d.temperature)
        t2 == clip(t1, R(temp_min), m.max_temp)
        tf == TempFactor(t2, m.optimal_temp)
        pr == max(R(prod_min), RAdd(RMul(m.production_rate, tf), d.production_rate))
        pw1 == RAdd(m.power_consumption, d.power_consumption)
        pw2 == clip(pw1, R(power_min), R(power_max))
        ps == max(R(0), RAdd(m.pressure, d.pressure))
        st == max(R(0), RAdd(m.stress, d.stress))
    IN  [machine |-> [m EXCEPT !.temperature = t2,
                               !.production_rate = pr,
                               !.power_consumption = pw2,
                               !.pressure = ps,
                               !.stress = st],
         temp_factor |-> tf]

\* ManufacturingMachine.update with the five draws d, statement by
\* statement; the result carries the local temp_factor next to the fields.
Machine_update(m, d) ==
    LET t1 == RAdd(m.temperature, d.temperature)
        t2 == clip(t1, R(temp_min), m.max_temp)
        tf == TempFactor(t2, m.optimal_temp)
        pr == max(R(prod_min), RAdd(RMul(m.production_rate, tf), d.production_rate))
        pw1 == RAdd(m.power_consumption, d.power_consumption)
        pw2 == clip(pw1, R(power_min), R(power_max))
        ps == RAdd(m.pressure, d.pressure)
        st == RAdd(m.stress, d.stress)
    IN  [machine |-> [m EXCEPT !.temperature = t2,
                               !.production_rate = pr,
                               !.power_consumption = pw2,
                               !.pressure = ps,
                               !.stress = st],
         temp_factor |-> tf]

\* ------------------------------------------------------------- DigitalTwin
\* Variant of append that inserts at the front.
append_front(h, v) == <<v>> \o h

\* list.append
append(h, v) == Append(h, v)

\* Variant of Rotate without the wraparound.
Rotate_no_wrap(rot, production_rate) ==
    RAdd(rot, RMul(production_rate, R(rotation_gain)))

\* self.rotation += production_rate * 5; self.rotation %= 360
Rotate(rot, production_rate) ==
    RMod(RAdd(rot, RMul(production_rate, R(rotation_gain))), full_turn)

\* Variant of DigitalTwin.update that records the machine before updating it.
DigitalTwin_update_record_first(frame, d) ==
    \E u \in {Machine_update(machine, d)} :
        /\ machine' = u.machine
        /\ temp_factor' = u.temp_factor
        /\ draws' = d
        /\ machine_updates' = machine_updates + 1
        /\ time' = append(time, frame)
        /\ temp_history' = append(temp_history, machine.temperature)
        /\ prod_history' = append(prod_history, machine.production_rate)
        /\ power_history' = append(power_history, machine.power_consumption)
        /\ pressure_history' = append(pressure_history, machine.pressure)
        /\ stress_history' = append(stress_history, machine.stress)
        /\ rotation' = Rotate(rotation, u.machine.production_rate)
        /\ passed' = Append(passed, frame)

\* DigitalTwin.update(frame).  The set_data/relim/drawing statements change
\* no field of the twin or the machine and need the lines and axes that
\* visualize creates, which exist whenever the animation calls update.
DigitalTwin_update(frame, d) ==
    \E u \in {Machine_update(machine, d)} :
        /\ machine' = u.machine
        /\ temp_factor' = u.temp_factor
        /\ draws' = d
        /\ machine_updates' = machine_updates + 1
        /\ time' = append(time, frame)
        /\ temp_history' = append(temp_history, u.machine.temperature)
        /\ prod_history' = append(prod_history, u.machine.production_rate)
        /\ power_history' = append(power_history, u.machine.power_consumption)
        /\ pressure_history' = append(pressure_history, u.machine.pressure)
        /\ stress_history' = append(stress_history, u.machine.stress)
        /\ rotation' = Rotate(rotation, u.machine.production_rate)
        /\ passed' = Append(passed, frame)

\* ----------------------------------------------------------------- script
\* machine = ManufacturingMachine(...); digital_twin = DigitalTwin(machine)
Init ==
    /\ config \in Configs
    /\ machine = ManufacturingMachine(config)
    /\ time = <<>>
    /\ temp_history = <<>>
    /\ prod_history = <<>>
    /\ power_history = <<>>
    /\ pressure_history = <<>>
    /\ stress_history = <<>>
    /\ rotation = R(initial_rotation)
    /\ pc = "constructed"
    /\ init_drawn = FALSE
    /\ next_frame = 0
    /\ passed = <<>>
    /\ machine_updates = 0
    /\ draws = ZeroNoise
    /\ temp_factor = R(1)

\* visualize() up to and including FuncAnimation(fig, self.update,
\* frames=200, interval=100, blit=False): figure, axes, lines and the
\* animation object exist; no frame has been drawn yet.
Visualize ==
    /\ pc = "constructed"
    /\ pc' = "animating"
    /\ UNCHANGED <<config, machine, histories, rotation, init_drawn, next_frame,
                   passed, machine_updates, draws, temp_factor>>

\* anim.to_jshtml() saves the animation.  Saving first draws the initial
\* frame; FuncAnimation was given no init_func, so the initial frame is
\* drawn by calling update with the first item of the frame sequence,
\* without consuming it.
InitDraw ==
    /\ pc = "animating"
    /\ ~init_drawn
    /\ init_drawn' = TRUE
    /\ \E d \in Draws : DigitalTwin_update(0, d)
    /\ UNCHANGED <<config, pc, next_frame>>

FrameLimit == IF frames < MaxFrames THEN frames ELSE MaxFrames

\* Saving then draws the frames range(frames) in order.
DrawNextFrame ==
    /\ pc = "animating"
    /\ init_drawn
    /\ next_frame < FrameLimit
    /\ next_frame' = next_frame + 1
    /\ \E d \in Draws : DigitalTwin_update(next_frame, d)
    /\ UNCHANGED <<config, pc, init_drawn>>

\* When the frame sequence is exhausted to_jshtml returns and the script
\* ends: no further step.
Next == Visualize \/ InitDraw \/ DrawNextFrame

Spec == Init /\ [][Next]_vars

\* ------------------------------------------------------------- properties
ticks == Len(passed)

Last(h) == h[Len(h)]

IsPrefix(s, t) == Len(s) <= Len(t) /\ SubSeq(t, 1, Len(s)) = s

Ticked == machine_updates' = machine_updates + 1

\* C1  Bounds invariant: after any number of ticks (none included) and any
\* noise draws, 0 <= temperature <= max_temp, 0 <= power_consumption <= 100
\* and production_rate >= 0.
C1_BoundsInvariant ==
    /\ RLe(R(0), machine.temperature)
    /\ RLe(machine.temperature, machine.max_temp)
    /\ RLe(R(0), machine.power_consumption)
    /\ RLe(machine.power_consumption, R(100))
    /\ RLe(R(0), machine.production_rate)

\* A tick whose positive temperature and power draws were cut at max_temp
\* and 100 and whose negative production draw was floored at 0.
C1_Witness ==
    /\ ticks = 1
    /\ draws.temperature = R(5)
    /\ RLt(machine.max_temp, RAdd(config.initial_temp, draws.temperature))
    /\ machine.temperature = machine.max_temp
    /\ draws.power_consumption = Q(1, 5) /\ machine.power_consumption = R(100)
    /\ draws.production_rate = Q(-1, 2) /\ machine.production_rate = R(0)

\* C2  Rotation wraparound: after any sequence of ticks (none included)
\* 0 <= rotation < 360.
C2_RotationWraparound == RLe(R(0), rotation) /\ RLt(rotation, R(360))

\* A tick after which rotation is below the angle just added: it wrapped.
C2_Witness ==
    /\ ticks >= 1
    /\ RLt(rotation, RMul(machine.production_rate, R(5)))

\* C3  History ordering: the time history is strictly increasing and equals,
\* element for element, the frame indices passed to update so far.
C3_HistoryOrdering ==
    /\ time = passed
    /\ \A i \in 1..Len(time) : \A j \in 1..Len(time) : i < j => time[i] < time[j]

\* C4  Each tick updates the machine exactly once and appends exactly one
\* entry to each of the six histories: after n ticks there were n machine
\* updates, all six sequences have length n, and the last entry of each
\* physical-quantity sequence is the machine's current value.
C4_OneEntryPerTick ==
    /\ machine_updates = ticks
    /\ Len(time) = ticks
    /\ Len(temp_history) = ticks
    /\ Len(prod_history) = ticks
    /\ Len(power_history) = ticks
    /\ Len(pressure_history) = ticks
    /\ Len(stress_history) = ticks
    /\ ticks > 0 =>
        /\ Last(temp_history) = machine.temperature
        /\ Last(prod_history) = machine.production_rate
        /\ Last(power_history) = machine.power_consumption
        /\ Last(pressure_history) = machine.pressure
        /\ Last(stress_history) = machine.stress

\* Two ticks, the second of which changed every quantity of the machine.
C4_Witness ==
    /\ ticks = 2
    /\ temp_history[1] # temp_history[2]
    /\ prod_history[1] # prod_history[2]
    /\ power_history[1] # power_history[2]
    /\ pressure_history[1] # pressure_history[2]
    /\ stress_history[1] # stress_history[2]

\* C6  Zero-noise scenario: the machine built with (70, 100, 75, 10, 50),
\* after one update whose draws are all 0, has temperature 70, power 50,
\* pressure 1, stress 1 and production_rate 28/3.
C6_ZeroNoiseScenario ==
    (config = ProgramConfig /\ machine_updates = 1 /\ draws = ZeroNoise) =>
        /\ machine.temperature = R(70)
        /\ machine.power_consumption = R(50)
        /\ machine.pressure = R(1)
        /\ machine.stress = R(1)
        /\ machine.production_rate = Q(28, 3)

C6_Witness ==
    /\ config = ProgramConfig /\ machine_updates = 1 /\ draws = ZeroNoise
    /\ temp_factor = Q(14, 15)

\* C7  Efficiency symmetry: the temp_factor an update computes is 1 when the
\* clamped temperature is optimal_temp, 0 when it is 2 * optimal_temp, and
\* never above 1.
C7_EfficiencySymmetry ==
    machine_updates > 0 =>
        /\ machine.temperature = machine.optimal_temp => temp_factor = R(1)
        /\ machine.temperature = RMul(R(2), machine.optimal_temp)
               => temp_factor = R(0)
        /\ RLe(temp_factor, R(1))

\* The first tick ended at 2 * optimal_temp and the second at optimal_temp.
C7_Witness ==
    /\ ticks = 2
    /\ temp_history[1] = RMul(R(2), machine.optimal_temp)
    /\ RLe(temp_history[1], machine.max_temp)
    /\ machine.temperature = machine.optimal_temp
    /\ temp_factor = R(1)

\* C8  Pressure and stress are never clamped: every update sets pressure to
\* its previous value plus the tick's pressure draw and stress to its
\* previous value plus the tick's stress draw, whatever the result and
\* whatever temperature, production_rate and power_consumption are.
C8_UnclampedWalk ==
    [][Ticked =>
        /\ machine'.pressure = RAdd(machine.pressure, draws'.pressure)
        /\ machine'.stress = RAdd(machine.stress, draws'.stress)]_vars

\* Pressure has gone negative and stress has fallen below its initial value.
C8_Witness ==
    /\ ticks = 2
    /\ RLt(machine.pressure, R(0))
    /\ RLt(machine.stress, R(1))

\* C9  Coupling order: the new production_rate is
\* max(0, old production_rate * (1 - |T' - optimal_temp| / optimal_temp)
\*        + production draw)
\* with T' the temperature of the same tick after noise and clamp.
C9_CouplingOrder ==
    [][Ticked =>
        machine'.production_rate =
            max(R(0),
                RAdd(RMul(machine.production_rate,
                          RSub(R(1),
                               RDiv(abs(RSub(machine'.temperature,
                                             machine.optimal_temp)),
                                    machine.optimal_temp))),
                     draws'.production_rate))]_vars

\* A tick whose temperature draw was cut by the clamp, so that the clamped
\* temperature, the unclamped one and the one before the tick are three
\* different values, and production stayed positive.
C9_Witness ==
    /\ ticks = 1
    /\ machine.temperature = machine.max_temp
    /\ config.initial_temp # machine.temperature
    /\ RAdd(config.initial_temp, draws.temperature) # machine.temperature
    /\ RLt(R(0), machine.production_rate)

\* C10  History is append-only: on every tick each of the six histories
\* before the tick is a prefix of the history after it.
C10_AppendOnly ==
    [][/\ IsPrefix(time, time')
       /\ IsPrefix(temp_history, temp_history')
       /\ IsPrefix(prod_history, prod_history')
       /\ IsPrefix(power_history, power_history')
       /\ IsPrefix(pressure_history, pressure_history')
       /\ IsPrefix(stress_history, stress_history')]_vars

\* A tick was appended to a non-empty history and the first entry is still
\* the snapshot of the first tick.
C10_Witness ==
    /\ ticks = 2
    /\ temp_history[1] # temp_history[2]
    /\ prod_history[1] # prod_history[2]
====
